---- MODULE Spec2Model ----
(***************************************************************************)
(* A model of two stateful parts of the utility collection:                *)
(*   - LoggerBase (src/src/logger/base/loggerBase.js): the log level, the  *)
(*     logs array and the level filter of addLog;                          *)
(*   - StorageManager (src/unnamed/part_005): JSON values kept in          *)
(*     localStorage / sessionStorage, with the setTimeout-based expiration *)
(*     bookkeeping, and the parameter guards of DomValidator.              *)
(* JavaScript values are records tagged with their type in field t.        *)
(***************************************************************************)
EXTENDS Integers, Sequences, FiniteSets, TLC

VARIABLES
    level,          \* LoggerBase: this.level
    logs,           \* LoggerBase: this.logs
    localStorage,   \* host localStorage: key -> stored text (or NoItem)
    sessionStorage, \* host sessionStorage
    timers,         \* pending setTimeout callbacks of setExpiration
    now,            \* Date.now(), in seconds
    call,           \* the call that has just run: the path it took and its outcome
    fileName,       \* FileLogger: this.fileName
    files,          \* host: the files handed to saveAs, oldest first
    auditLogPath,   \* AuditLogger: this.auditLogPath
    logRotation,    \* AuditLogger: this.logRotation
    maxLogs,        \* AuditLogger: this.maxLogs
    saveIntoFile,   \* AuditLogger: this.saveIntoFile
    listeners,      \* EventLogger: the emitter's listeners for 'log', in order
    received        \* what the listeners were called with, oldest first

vars == <<level, logs, localStorage, sessionStorage, timers, now, call,
          fileName, files, auditLogPath, logRotation, maxLogs, saveIntoFile,
          listeners, received>>

loggerVars == <<level, logs>>
storageVars == <<localStorage, sessionStorage, timers>>
\* The fields of the classes that extend LoggerBase, and what they hand out.
derivedVars == <<fileName, files, auditLogPath, logRotation, maxLogs, saveIntoFile,
                 listeners, received>>

----------------------------------------------------------------------------
(* Bounds of the model *)

MaxTime == 2
MaxLogs == 2
MaxTimers == 1
MaxArrayLen == 1
MaxItems == 2

----------------------------------------------------------------------------
(* JavaScript values *)

Undefined == [t |-> "undefined"]
Null == [t |-> "null"]
Str(s) == [t |-> "string", s |-> s]
Num(n) == [t |-> "number", n |-> n]
Bool(b) == [t |-> "boolean", b |-> b]
NaN == [t |-> "nan"]
Arr(items) == [t |-> "array", items |-> items]
\* The object { value, expirationTime } that setExpiration stores.
Obj(value, expirationTime) ==
    [t |-> "object", value |-> value, expirationTime |-> expirationTime]
\* The StorageManager class itself, which the chaining methods return.
This == [t |-> "class"]

IsString(v) == v.t = "string"

\* What a call did: it returned a value or threw.
Returned(v) == [outcome |-> "return", value |-> v]
Threw(kind) == [outcome |-> "throw", value |-> Str(kind)]

----------------------------------------------------------------------------
(* Joi, as the validators use it *)

\* Joi.string(): a string, and by default not the empty string.
JoiString(v) == IsString(v) /\ v.s # ""

\* Joi.string().required()
JoiStringRequired(v) == JoiString(v)

\* Joi.string().valid(...allowed) on an optional key: an absent (undefined)
\* value passes, anything else must be one of the allowed strings.
JoiStringValidOptional(v, allowed) ==
    \/ v = Undefined
    \/ IsString(v) /\ v.s \in allowed

----------------------------------------------------------------------------
(* LoggerValidation *)

validReturnTypes == {"WARN", "INFO", "DEBUG"}

\* TRUE when _validateLogLevel({ level }) returns, FALSE when it throws.
validateLogLevel(lv) == JoiStringValidOptional(lv, validReturnTypes)

\* TRUE when _validateLogMessage({ message }) returns, FALSE when it throws.
validateLogMessage(message) == JoiStringRequired(message)

----------------------------------------------------------------------------
(* LoggerBase *)

\* Mutant of LOG_LEVELS_KEYS: the enum declared in another order.
LOG_LEVELS_KEYS_Reordered == <<"INFO", "DEBUG", "WARN">>

\* Object.keys(LOG_LEVELS), in insertion order.
LOG_LEVELS_KEYS == <<"DEBUG", "INFO", "WARN">>

LOG_LEVELS == {LOG_LEVELS_KEYS[i] : i \in DOMAIN LOG_LEVELS_KEYS}

\* Array.prototype.indexOf on Object.keys(LOG_LEVELS): 0-based, -1 when absent.
indexOf(keys, s) ==
    IF \E i \in DOMAIN keys : keys[i] = s
    THEN (CHOOSE i \in DOMAIN keys : keys[i] = s) - 1
    ELSE -1

\* A default parameter value applies when the argument is undefined.
DefaultParam(v, d) == IF v = Undefined THEN d ELSE v

\* The entry `${level} - ${timestamp} - ${message}`, kept as its three parts.
finalMessage(lv, timestamp, message) ==
    [level |-> lv.s, timestamp |-> timestamp, message |-> message.s]

LevelInputs ==
    {Str("DEBUG"), Str("INFO"), Str("WARN"), Str("ERROR"), Undefined, Null}

MessageInputs == {Str("m1"), Str("m2"), Str(""), Undefined}

\* constructor(level = LOG_LEVELS.INFO): the level of a logger that was built.
ConstructedLevels ==
    {DefaultParam(lv, Str("INFO")) : lv \in
        {l \in LevelInputs : validateLogLevel(DefaultParam(l, Str("INFO")))}}

\* Mutant of SetLogLevel: the level is validated but never assigned.
SetLogLevel_NoAssign(lv) ==
    /\ level' = level
    /\ call' = [op |-> "setLogLevel", level |-> lv,
                path |-> IF validateLogLevel(lv) THEN "set" ELSE "invalid",
                result |-> IF validateLogLevel(lv) THEN Returned(Undefined)
                           ELSE Threw("Error")]
    /\ UNCHANGED <<logs, now>>
    /\ UNCHANGED storageVars
    /\ UNCHANGED derivedVars

\* setLogLevel(level)
SetLogLevel(lv) ==
    /\ IF validateLogLevel(lv)
       THEN /\ level' = lv
            /\ call' = [op |-> "setLogLevel", level |-> lv, path |-> "set",
                        result |-> Returned(Undefined)]
       ELSE /\ level' = level
            /\ call' = [op |-> "setLogLevel", level |-> lv, path |-> "invalid",
                        result |-> Threw("Error")]
    /\ UNCHANGED <<logs, now>>
    /\ UNCHANGED storageVars
    /\ UNCHANGED derivedVars

\* addLog(message, level = LOG_LEVELS.INFO)
AddLog(message, lvArg) ==
    LET lv == DefaultParam(lvArg, Str("INFO"))
        rec(path, res) == [op |-> "addLog", level |-> lvArg, message |-> message,
                           path |-> path, result |-> res]
    IN
    /\ Len(logs) < MaxLogs
    /\ IF ~validateLogLevel(lv) \/ ~validateLogMessage(message)
       THEN /\ logs' = logs
            /\ call' = rec("invalid", Threw("Error"))
       ELSE IF ~IsString(level)
       THEN \* this.level.toString() on undefined
            /\ logs' = logs
            /\ call' = rec("nolevel", Threw("TypeError"))
       ELSE IF indexOf(LOG_LEVELS_KEYS, lv.s) < indexOf(LOG_LEVELS_KEYS, level.s)
       THEN /\ logs' = logs
            /\ call' = rec("filtered", Returned(Undefined))
       ELSE /\ logs' = Append(logs, finalMessage(lv, now, message))
            /\ call' = rec("pushed", Returned(Undefined))
    /\ UNCHANGED <<level, now>>
    /\ UNCHANGED storageVars
    /\ UNCHANGED derivedVars

\* clearLogs()
ClearLogs ==
    /\ logs # <<>>
    /\ logs' = <<>>
    /\ call' = [op |-> "clearLogs", path |-> "cleared", result |-> Returned(Undefined)]
    /\ UNCHANGED <<level, now>>
    /\ UNCHANGED storageVars
    /\ UNCHANGED derivedVars

\* The clock of Date.now() moves on.
Tick ==
    /\ now < MaxTime
    /\ now' = now + 1
    /\ UNCHANGED <<level, logs, localStorage, sessionStorage, timers, call>>
    /\ UNCHANGED derivedVars

----------------------------------------------------------------------------
(* The host: JSON, Web Storage, timers *)

StorageNames == {"local", "session"}
\* The keys the storages may hold; "7" is also what the number 7 coerces to.
StorageKeys == {"a", "7"}

\* getItem's null: no item under the key.
NoItem == [k |-> "none"]
\* A stored string that is the JSON text of value v.
Json(v) == [k |-> "json", v |-> v]
\* A stored string that is no JSON text.
Raw(s) == [k |-> "raw", s |-> s]

\* The value JSON.stringify writes for v inside an array or as a property:
\* NaN becomes null; an undefined array item becomes null.
RECURSIVE JsonValue(_)
JsonValue(v) ==
    CASE v.t = "nan" -> Null
      [] v.t = "array" ->
            Arr([i \in DOMAIN v.items |->
                    IF v.items[i] = Undefined THEN Null ELSE JsonValue(v.items[i])])
      [] v.t = "object" ->
            \* a property whose value is undefined is left out
            Obj(IF v.value = Undefined THEN Undefined ELSE JsonValue(v.value),
                JsonValue(v.expirationTime))
      [] OTHER -> v

\* JSON.stringify(v): the text, or undefined for undefined.
JSONstringify(v) == IF v = Undefined THEN Undefined ELSE Json(JsonValue(v))

\* storage.setItem(key, x) stores String(x).
ItemString(x) == IF x = Undefined THEN Raw("undefined") ELSE x

\* JSON.parse(text): Returned(value), or a SyntaxError. JSON.parse(null) is null.
JSONparse(text) ==
    CASE text = NoItem -> Returned(Null)
      [] text.k = "json" -> Returned(text.v)
      [] OTHER -> Threw("SyntaxError")

storageName(useSessionStorage) == IF useSessionStorage THEN "session" ELSE "local"

getItem(st, k) == IF st = "session" THEN sessionStorage[k] ELSE localStorage[k]

\* storage.setItem(k, text) on the storage named st.
setItem(st, k, text) ==
    /\ localStorage' = IF st = "local" THEN [localStorage EXCEPT ![k] = text]
                       ELSE localStorage
    /\ sessionStorage' = IF st = "session" THEN [sessionStorage EXCEPT ![k] = text]
                         ELSE sessionStorage

\* storage.removeItem(k)
removeItem(st, k) == setItem(st, k, NoItem)

NoTimer == [k |-> "none"]
TimerSlots == 1..MaxTimers
FreeSlots == {i \in TimerSlots : timers[i] = NoTimer}

\* setTimeout(callback, delay): the callback that removes key k of storage st.
setTimeout(st, k, delay) ==
    LET i == CHOOSE j \in FreeSlots : \A h \in FreeSlots : j <= h IN
    timers' = [timers EXCEPT ![i] = [k |-> "timer", st |-> st, key |-> k,
                                     due |-> now + delay]]

----------------------------------------------------------------------------
(* DomValidator *)

\* Joi.number(): a number that is not NaN.
JoiNumber(v) == v.t = "number"

\* Joi.object(): an object that is not an array.
JoiObject(v) == v.t \in {"object", "element"}

\* isString({ param, throwOnError }): the schema's verdict; validateParams
\* throws on a failure when throwOnError, and returns false otherwise.
isString(param) == JoiStringRequired(param)
isNumber(param) == JoiNumber(param)
isObject(param) == JoiObject(param)

\* throwOrReturnOnError(throwOnError, message), followed by `return fallback`.
throwOrReturnOnError(throwOnError, fallback) ==
    IF throwOnError THEN Threw("Error") ELSE Returned(fallback)

----------------------------------------------------------------------------
(* StorageManager *)

KeyInputs == {Str("a"), Str("7"), Str(""), Num(7)}
ValidKeyInputs == {k \in KeyInputs : isString(k)}
ValueInputs == {Null, Num(1), NaN, Undefined, Arr(<<>>)}
NumberInputs == {Num(1)}
ElementInputs == {Num(1)}
SecondsInputs == {Num(0), Num(1), Str("soon")}

\* Whether v survives JSON.stringify and JSON.parse: no undefined, no NaN.
RECURSIVE JSONSerializable(_)
JSONSerializable(v) ==
    CASE v.t \in {"undefined", "nan"} -> FALSE
      [] v.t = "array" -> \A i \in DOMAIN v.items : JSONSerializable(v.items[i])
      [] OTHER -> TRUE

\* The record of a call that was given invalid input: the method, the key, the
\* throwOnError flag, the path the code took and what came out.
Rec(op, key, toe, path, res) ==
    [op |-> op, key |-> key, throwOnError |-> toe, path |-> path, result |-> res]

\* The record of a call on a path of valid input.
Done(op, path, res) == [op |-> op, path |-> path, result |-> res]

\* No call is running: JavaScript runs each call, and each timer callback, to
\* completion before the next one starts.
Idle == call.op = "none"

ItemCount ==
    Cardinality({k \in StorageKeys : localStorage[k] # NoItem})
    + Cardinality({k \in StorageKeys : sessionStorage[k] # NoItem})

\* Bound of the model: room for one more item under key k of storage st.
HasRoom(st, k) == getItem(st, k) # NoItem \/ ItemCount < MaxItems

\* setValue(key, value, useSessionStorage = false, throwOnError = true)
SetValue(key, value, ss, toe) ==
    LET st == storageName(ss) IN
    /\ Idle
    /\ IF ~isString(key)
       THEN /\ call' = Rec("setValue", key, toe, "invalidKey",
                           throwOrReturnOnError(toe, Undefined))
            /\ UNCHANGED <<localStorage, sessionStorage>>
       ELSE /\ HasRoom(st, key.s)
            /\ setItem(st, key.s, ItemString(JSONstringify(value)))
            /\ call' = Done("setValue", "stored", Returned(This))
    /\ UNCHANGED <<timers, now>>
    /\ UNCHANGED loggerVars
    /\ UNCHANGED derivedVars

\* The record getValue(key, useSessionStorage, throwOnError) leaves.
getValueCall(key, ss, toe) ==
    LET st == storageName(ss) IN
    IF ~isString(key)
    THEN Rec("getValue", key, toe, "invalidKey", throwOrReturnOnError(toe, Undefined))
    ELSE IF getItem(st, key.s) = NoItem
    THEN Done("getValue", "absent", Returned(Null))
    ELSE Done("getValue", "parsed", JSONparse(getItem(st, key.s)))

\* getValue(key, useSessionStorage = false, throwOnError = true)
GetValue(key, ss, toe) ==
    /\ Idle
    /\ call' = getValueCall(key, ss, toe)
    /\ UNCHANGED <<localStorage, sessionStorage, timers, now>>
    /\ UNCHANGED loggerVars
    /\ UNCHANGED derivedVars

\* Mutant of RemoveValue: the guard's return is missing, so with
\* throwOnError=false removeItem runs on the key coerced to a string.
RemoveValue_NoReturn(key, ss, toe) ==
    LET st == storageName(ss)
        coerced == IF key.t = "number" THEN "7" ELSE key.s
    IN
    /\ Idle
    /\ IF ~isString(key) /\ toe
       THEN /\ call' = Rec("removeValue", key, toe, "invalidKey", Threw("Error"))
            /\ UNCHANGED <<localStorage, sessionStorage>>
       ELSE /\ IF coerced \in StorageKeys THEN removeItem(st, coerced)
               ELSE UNCHANGED <<localStorage, sessionStorage>>
            /\ call' = IF isString(key)
                       THEN Done("removeValue", "removed", Returned(This))
                       ELSE Rec("removeValue", key, toe, "invalidKey", Returned(This))
    /\ UNCHANGED <<timers, now>>
    /\ UNCHANGED loggerVars
    /\ UNCHANGED derivedVars

\* removeValue(key, useSessionStorage = false, throwOnError = true)
RemoveValue(key, ss, toe) ==
    LET st == storageName(ss) IN
    /\ Idle
    /\ IF ~isString(key)
       THEN /\ call' = Rec("removeValue", key, toe, "invalidKey",
                           throwOrReturnOnError(toe, Undefined))
            /\ UNCHANGED <<localStorage, sessionStorage>>
       ELSE /\ removeItem(st, key.s)
            /\ call' = Done("removeValue", "removed", Returned(This))
    /\ UNCHANGED <<timers, now>>
    /\ UNCHANGED loggerVars
    /\ UNCHANGED derivedVars

\* Mutant of keyIsAbsent: the existence check is dropped.
keyIsAbsent_Unchecked(st, k) == TRUE

\* storage.getItem(key) === null
keyIsAbsent(st, k) == getItem(st, k) = NoItem

\* setNumber(key, value, useSessionStorage = false, throwOnError = true)
SetNumber(key, value, ss, toe) ==
    LET st == storageName(ss) IN
    /\ Idle
    /\ IF ~isString(key)
       THEN /\ call' = Rec("setNumber", key, toe, "invalidKey",
                           throwOrReturnOnError(toe, Undefined))
            /\ UNCHANGED <<localStorage, sessionStorage>>
       ELSE IF keyIsAbsent(st, key.s)
       THEN /\ HasRoom(st, key.s)
            /\ setItem(st, key.s, ItemString(JSONstringify(value)))
            /\ call' = Done("setNumber", "stored", Returned(This))
       ELSE /\ call' = Done("setNumber", "exists", Returned(Undefined))
            /\ UNCHANGED <<localStorage, sessionStorage>>
    /\ UNCHANGED <<timers, now>>
    /\ UNCHANGED loggerVars
    /\ UNCHANGED derivedVars

\* addToArray(key, element, useSessionStorage = false, throwOnError = true)
AddToArray(key, element, ss, toe) ==
    LET st == storageName(ss)
        parsed == JSONparse(getItem(st, key.s))
    IN
    /\ Idle
    /\ IF ~isString(key)
       THEN /\ call' = Rec("addToArray", key, toe, "invalidKey",
                           throwOrReturnOnError(toe, Undefined))
            /\ UNCHANGED <<localStorage, sessionStorage>>
       ELSE IF parsed.outcome = "throw"
       THEN /\ call' = Rec("addToArray", key, toe, "notJson", parsed)
            /\ UNCHANGED <<localStorage, sessionStorage>>
       ELSE IF parsed.value.t # "array"
       THEN \* throw new Error(...), whatever throwOnError is
            /\ call' = Rec("addToArray", key, toe, "notArray", Threw("Error"))
            /\ UNCHANGED <<localStorage, sessionStorage>>
       ELSE /\ Len(parsed.value.items) < MaxArrayLen
            /\ setItem(st, key.s, ItemString(JSONstringify(
                   Arr(Append(parsed.value.items, element)))))
            /\ call' = Done("addToArray", "pushed", Returned(This))
    /\ UNCHANGED <<timers, now>>
    /\ UNCHANGED loggerVars
    /\ UNCHANGED derivedVars

ExpirationValueInputs == {Num(1)}

\* A value that `if (x)` takes: not null, undefined, NaN or 0.
Truthy(v) ==
    CASE v.t \in {"null", "undefined", "nan"} -> FALSE
      [] v.t = "number" -> v.n # 0
      [] v.t = "string" -> v.s # ""
      [] v.t = "boolean" -> v.b
      [] OTHER -> TRUE

\* typeof v === 'object' (null, arrays and objects)
TypeofObject(v) == v.t \in {"null", "array", "object"}

\* parsedValue.expirationTime: undefined on a value without that property.
expirationTimeOf(v) == IF v.t = "object" THEN v.expirationTime ELSE Undefined

\* setExpiration(key, value, secondsToExpiration, useSessionStorage = false,
\*               throwOnError = true)
SetExpiration(key, value, secondsToExpiration, ss, toe) ==
    LET st == storageName(ss)
        expirationTime == IF Truthy(secondsToExpiration)
                          THEN Num(now + secondsToExpiration.n) ELSE Null
        storedValue == Obj(value, expirationTime)
    IN
    /\ Idle
    /\ IF ~isString(key) \/ ~isNumber(secondsToExpiration)
       THEN /\ call' = Rec("setExpiration", key, toe, "invalid",
                           throwOrReturnOnError(toe, Undefined))
            /\ UNCHANGED <<localStorage, sessionStorage, timers>>
       ELSE /\ HasRoom(st, key.s)
            /\ setItem(st, key.s, ItemString(JSONstringify(storedValue)))
            /\ IF Truthy(expirationTime)
               THEN /\ FreeSlots # {}
                    /\ now + secondsToExpiration.n <= MaxTime
                    /\ setTimeout(st, key.s, secondsToExpiration.n)
                    /\ call' = [op |-> "setExpiration", key |-> key.s, st |-> st,
                                path |-> "scheduled", result |-> Returned(This)]
               ELSE /\ timers' = timers
                    /\ call' = Done("setExpiration", "noTimer",
                                   Returned(This))
    /\ UNCHANGED now
    /\ UNCHANGED loggerVars
    /\ UNCHANGED derivedVars

\* Mutant of TimerFire: the callback runs and removes nothing.
TimerFire_NoRemoval(i) ==
    /\ Idle
    /\ timers[i] # NoTimer
    /\ now >= timers[i].due
    /\ timers' = [timers EXCEPT ![i] = NoTimer]
    /\ call' = [op |-> "timeout", key |-> timers[i].key, st |-> timers[i].st,
                path |-> "removed", result |-> Returned(Undefined)]
    /\ UNCHANGED <<localStorage, sessionStorage, now>>
    /\ UNCHANGED loggerVars
    /\ UNCHANGED derivedVars

\* The callback setExpiration handed to setTimeout: storage.removeItem(key).
TimerFire(i) ==
    /\ Idle
    /\ timers[i] # NoTimer
    /\ now >= timers[i].due
    /\ removeItem(timers[i].st, timers[i].key)
    /\ timers' = [timers EXCEPT ![i] = NoTimer]
    /\ call' = [op |-> "timeout", key |-> timers[i].key, st |-> timers[i].st,
                path |-> "removed", result |-> Returned(Undefined)]
    /\ UNCHANGED now
    /\ UNCHANGED loggerVars
    /\ UNCHANGED derivedVars

\* checkExpiration(key, useSessionStorage = false, throwOnError = true)
CheckExpiration(key, ss, toe) ==
    LET st == storageName(ss)
        storedValue == getItem(st, key.s)
        item == JSONparse(storedValue)
    IN
    /\ Idle
    /\ call' =
         IF ~isString(key)
         THEN Rec("checkExpiration", key, toe, "invalidKey",
                  throwOrReturnOnError(toe, Null))
         ELSE IF storedValue = NoItem
         THEN Done("checkExpiration", "absent", Returned(Null))
         ELSE IF item.outcome = "throw"
         THEN Done("checkExpiration", "notJson", item)
         ELSE IF item.value = Null
         THEN \* item.expirationTime on null
              Done("checkExpiration", "nullItem", Threw("TypeError"))
         ELSE IF /\ Truthy(expirationTimeOf(item.value))
                 /\ now > expirationTimeOf(item.value).n
         THEN Done("checkExpiration", "expired", Returned(Bool(TRUE)))
         ELSE Done("checkExpiration", "valid", Returned(Bool(FALSE)))
    /\ UNCHANGED <<localStorage, sessionStorage, timers, now>>
    /\ UNCHANGED loggerVars
    /\ UNCHANGED derivedVars

\* Mutant of expiredForClear: an entry is kept at the instant it expires.
expiredForClear_Late(expirationTime) ==
    Truthy(expirationTime) /\ expirationTime.n < now

\* expirationTime && expirationTime <= now
expiredForClear(expirationTime) ==
    Truthy(expirationTime) /\ expirationTime.n <= now

\* clearExpiredValues(key, useSessionStorage = false, throwOnError = true)
ClearExpiredValues(key, ss, toe) ==
    LET st == storageName(ss)
        parsedValue == JSONparse(getItem(st, key.s))
    IN
    /\ Idle
    /\ IF ~isString(key)
       THEN /\ call' = Rec("clearExpiredValues", key, toe, "invalidKey",
                           throwOrReturnOnError(toe, Undefined))
            /\ UNCHANGED <<localStorage, sessionStorage>>
       ELSE IF parsedValue.outcome = "throw"
       THEN /\ call' = Rec("clearExpiredValues", key, toe, "notJson",
                           throwOrReturnOnError(toe, Undefined))
            /\ UNCHANGED <<localStorage, sessionStorage>>
       ELSE IF ~Truthy(parsedValue.value) \/ ~TypeofObject(parsedValue.value)
       THEN \* the throw inside the try block is caught and thrown again
            /\ call' = Rec("clearExpiredValues", key, toe, "notObject",
                           throwOrReturnOnError(toe, Undefined))
            /\ UNCHANGED <<localStorage, sessionStorage>>
       ELSE IF expiredForClear(expirationTimeOf(parsedValue.value))
       THEN /\ removeItem(st, key.s)
            /\ call' = Done("clearExpiredValues", "removed",
                           Returned(Undefined))
       ELSE /\ call' = Done("clearExpiredValues", "kept",
                           Returned(Undefined))
            /\ UNCHANGED <<localStorage, sessionStorage>>
    /\ UNCHANGED <<timers, now>>
    /\ UNCHANGED loggerVars
    /\ UNCHANGED derivedVars

----------------------------------------------------------------------------
(* ElementHandler *)

\* A DOM element carrying the attribute id="x" and no other.
TheElement == [t |-> "element", attributes |-> {"id"}]

TargetInputs == {TheElement, Null}
AttributeNameInputs == {Str("id"), Num(7)}

\* String(v), the attribute name that element.getAttribute(v) looks up.
ToAttributeName(v) == IF v.t = "string" THEN v.s ELSE "7"

\* getAttribute(targetElement, attributeName, throwOnError = true)
GetAttribute(targetElement, attributeName, toe) ==
    LET invalid == ~isObject(targetElement) \/ ~isString(attributeName)
        rec(path, res) == Rec("getAttribute", attributeName, toe, path, res)
    IN
    /\ Idle
    /\ call' =
         IF invalid /\ toe
         THEN rec("invalid", Threw("Error"))
         ELSE IF targetElement.t # "element"
         THEN \* the empty else branch falls through to targetElement.getAttribute
              rec("invalid", Threw("TypeError"))
         ELSE IF ToAttributeName(attributeName) \in targetElement.attributes
         THEN rec(IF invalid THEN "invalid" ELSE "found", Returned(Str("x")))
         ELSE rec(IF invalid THEN "invalid" ELSE "missing", Returned(Null))
    /\ UNCHANGED <<localStorage, sessionStorage, timers, now>>
    /\ UNCHANGED loggerVars
    /\ UNCHANGED derivedVars

NoCall == [op |-> "none", path |-> "none", result |-> Returned(Undefined)]

\* The call has run to completion and its caller has its result.
Return ==
    /\ ~Idle
    /\ call' = NoCall
    /\ UNCHANGED <<level, logs, localStorage, sessionStorage, timers, now>>
    /\ UNCHANGED derivedVars

\* The logger is a plain LoggerBase: it has none of the fields of the classes
\* that extend it, and nothing was saved or emitted.
PlainLogger ==
    /\ fileName = Undefined
    /\ files = <<>>
    /\ auditLogPath = Undefined
    /\ logRotation = FALSE
    /\ maxLogs = 0
    /\ saveIntoFile = FALSE
    /\ listeners = <<>>
    /\ received = <<>>

\* A page with empty storages and a logger built with the default level.
Init ==
    /\ level = DefaultParam(Undefined, Str("INFO"))
    /\ logs = <<>>
    /\ localStorage = [k \in StorageKeys |-> NoItem]
    /\ sessionStorage = [k \in StorageKeys |-> NoItem]
    /\ timers = [i \in TimerSlots |-> NoTimer]
    /\ now = 0
    /\ call = NoCall
    /\ PlainLogger

\* The same page, with a logger built by any constructor call that returned.
LoggerInit ==
    /\ level \in ConstructedLevels
    /\ logs = <<>>
    /\ localStorage = [k \in StorageKeys |-> NoItem]
    /\ sessionStorage = [k \in StorageKeys |-> NoItem]
    /\ timers = [i \in TimerSlots |-> NoTimer]
    /\ now = 0
    /\ call = NoCall
    /\ PlainLogger

LoggerNext ==
    \/ \E lv \in LevelInputs : SetLogLevel(lv)
    \/ \E m \in MessageInputs, lv \in LevelInputs : AddLog(m, lv)
    \/ ClearLogs
    \/ Tick

LoggerSpec == LoggerInit /\ [][LoggerNext]_vars

Next ==
    \/ \E k \in KeyInputs, v \in ValueInputs, ss \in BOOLEAN, toe \in BOOLEAN :
            SetValue(k, v, ss, toe)
    \/ \E k \in KeyInputs, ss \in BOOLEAN, toe \in BOOLEAN : GetValue(k, ss, toe)
    \/ \E k \in KeyInputs, ss \in BOOLEAN, toe \in BOOLEAN : RemoveValue(k, ss, toe)
    \/ \E k \in KeyInputs, v \in NumberInputs, ss \in BOOLEAN, toe \in BOOLEAN :
            SetNumber(k, v, ss, toe)
    \/ \E k \in KeyInputs, e \in ElementInputs, ss \in BOOLEAN, toe \in BOOLEAN :
            AddToArray(k, e, ss, toe)
    \/ \E k \in KeyInputs, v \in ExpirationValueInputs, n \in SecondsInputs,
          ss \in BOOLEAN, toe \in BOOLEAN : SetExpiration(k, v, n, ss, toe)
    \/ \E k \in KeyInputs, ss \in BOOLEAN, toe \in BOOLEAN : CheckExpiration(k, ss, toe)
    \/ \E k \in KeyInputs, ss \in BOOLEAN, toe \in BOOLEAN :
            ClearExpiredValues(k, ss, toe)
    \/ \E e \in TargetInputs, a \in AttributeNameInputs, toe \in BOOLEAN :
            GetAttribute(e, a, toe)
    \/ \E i \in TimerSlots : TimerFire(i)
    \/ Idle /\ Tick
    \/ Return

Spec == Init /\ [][Next]_vars

----------------------------------------------------------------------------
(* The claims about LoggerBase *)

\* The order DEBUG < INFO < WARN; a value that is no level has no place in it.
LevelRank(s) == CASE s = "DEBUG" -> 0 [] s = "INFO" -> 1 [] s = "WARN" -> 2

IsLevel(v) == v.t = "string" /\ v.s \in {"DEBUG", "INFO", "WARN"}

AtLeast(lv, current) ==
    IsLevel(lv) /\ IsLevel(current) /\ LevelRank(lv.s) >= LevelRank(current.s)

\* What addLog(message, lvArg) must leave in the logs array when the entry is
\* filtered against the level `current`.
LogsAfterAddLog(message, lvArg, current) ==
    LET lv == IF lvArg = Undefined THEN Str("INFO") ELSE lvArg IN
    IF message.t = "string" /\ message.s # "" /\ AtLeast(lv, current)
    THEN Append(logs, [level |-> lv.s, timestamp |-> now, message |-> message.s])
    ELSE logs

\* C1: addLog(message, level) appends the entry for the message to the logs
\* array exactly when level is equal to or higher than the logger's current
\* level in the order DEBUG < INFO < WARN; otherwise the logs array is left
\* unchanged.
C1_AddLogFiltersByLevel ==
    [][\A m \in MessageInputs, lv \in LevelInputs :
          AddLog(m, lv) => logs' = LogsAfterAddLog(m, lv, level)]_vars

\* C1 witness: a WARN entry was appended by a logger at level INFO, whose logs
\* array holds it.
C1_Witness ==
    /\ call.op = "addLog" /\ call.path = "pushed"
    /\ call.level = Str("WARN") /\ level = Str("INFO")
    /\ Len(logs) = 2 /\ logs[2].level = "WARN"

\* C9: setLogLevel(level) leaves the entries already in the logs array as they
\* are, the level it was given becomes the logger's level, and the addLog that
\* follows is filtered against that new level.
C9_SetLogLevelOnlyAffectsLaterLogs ==
    [][/\ \A lv \in LevelInputs :
            SetLogLevel(lv) =>
                /\ logs' = logs
                /\ call'.result.outcome = "return" => level' = lv
       /\ (call.op = "setLogLevel" /\ call.result.outcome = "return") =>
            \A m \in MessageInputs, lv \in LevelInputs :
                AddLog(m, lv) => logs' = LogsAfterAddLog(m, lv, call.level)]_vars

\* C9 witness: the level was raised to WARN over a non-empty logs array.
C9_Witness ==
    /\ call.op = "setLogLevel" /\ call.path = "set" /\ call.level = Str("WARN")
    /\ level = Str("WARN") /\ Len(logs) = 1 /\ logs[1].level = "DEBUG"

\* C10: the logger's current level is always one of DEBUG, INFO and WARN.
C10_LevelAlwaysValid == IsLevel(level)

----------------------------------------------------------------------------
(* Scheduling: time passes, the event loop runs a due timer callback once the
   running call has returned, and every call returns. *)

\* The calls of Next on valid keys, with the default throwOnError.
FairNext ==
    \/ \E k \in ValidKeyInputs, v \in ExpirationValueInputs, ss \in BOOLEAN :
            SetValue(k, v, ss, TRUE)
    \/ \E k \in ValidKeyInputs, ss \in BOOLEAN : GetValue(k, ss, TRUE)
    \/ \E k \in ValidKeyInputs, ss \in BOOLEAN : RemoveValue(k, ss, TRUE)
    \/ \E k \in ValidKeyInputs, v \in NumberInputs, ss \in BOOLEAN :
            SetNumber(k, v, ss, TRUE)
    \/ \E k \in ValidKeyInputs, v \in ExpirationValueInputs, n \in SecondsInputs,
          ss \in BOOLEAN : SetExpiration(k, v, n, ss, TRUE)
    \/ \E k \in ValidKeyInputs, ss \in BOOLEAN : CheckExpiration(k, ss, TRUE)
    \/ \E k \in ValidKeyInputs, ss \in BOOLEAN : ClearExpiredValues(k, ss, TRUE)
    \/ \E i \in TimerSlots : TimerFire(i)
    \/ Idle /\ Tick
    \/ Return

FairSpec ==
    /\ Init /\ [][FairNext]_vars
    /\ SF_vars(Idle /\ Tick)
    /\ \A i \in TimerSlots : SF_vars(TimerFire(i))
    /\ WF_vars(Return)

----------------------------------------------------------------------------
(* The claims about StorageManager and the throwOnError pattern *)

\* The flag a storage method was called with, as a storage name.
Selected(ss) == IF ss THEN "session" ELSE "local"

\* The two storages with key k of storage st set to text (NoItem: removed).
StoragesWith(st, k, text) ==
    <<IF st = "local" THEN [localStorage EXCEPT ![k] = text] ELSE localStorage,
      IF st = "session" THEN [sessionStorage EXCEPT ![k] = text] ELSE sessionStorage>>

Stored(st, k) == IF st = "local" THEN localStorage[k] ELSE sessionStorage[k]

\* A key under which a storage of the model may hold an item.
NamesItem(key) == key.t = "string" /\ key.s \in StorageKeys

\* C2: a call with invalid input (a wrongly typed argument, or stored data of
\* the wrong type) throws when throwOnError is true, and otherwise returns
\* null or undefined without throwing.
C2_ThrowOnErrorDecidesOutcome ==
    call.path \in {"invalidKey", "invalid", "notJson", "notArray", "notObject"} =>
        IF call.throwOnError
        THEN call.result.outcome = "throw"
        ELSE call.result \in {Returned(Null), Returned(Undefined)}

IsEntry(text) == text # NoItem /\ text.k = "json" /\ text.v.t = "object"

\* The entry's expirationTime is a time that has passed.
PastExpiration(text) ==
    /\ IsEntry(text)
    /\ text.v.expirationTime.t = "number"
    /\ now > text.v.expirationTime.n

\* What C4 says checkExpiration(key) returns.
C4_Expected(key, ss) ==
    IF ~NamesItem(key) \/ ~IsEntry(Stored(Selected(ss), key.s)) THEN Null
    ELSE Bool(PastExpiration(Stored(Selected(ss), key.s)))

\* C4: checkExpiration(key) returns true if the value stored under key has
\* expired (the current time is past its expirationTime), false if it is still
\* valid, and null if the key or the stored value is invalid. (A call that
\* throws for an invalid key because throwOnError is true is left aside.)
C4_CheckExpirationResult ==
    [][\A k \in KeyInputs, ss \in BOOLEAN, toe \in BOOLEAN :
          (CheckExpiration(k, ss, toe) /\ (NamesItem(k) \/ ~toe))
              => call'.result = Returned(C4_Expected(k, ss))]_vars

\* The entry has reached its expirationTime.
ReachedExpiration(text) ==
    /\ IsEntry(text)
    /\ text.v.expirationTime.t = "number"
    /\ now >= text.v.expirationTime.n

C6_NonStringKeyChangesNothing ==
    [][\A k \in {x \in KeyInputs : x.t # "string"}, ss \in BOOLEAN, toe \in BOOLEAN :
          (\/ \E v \in ValueInputs : SetValue(k, v, ss, toe)
           \/ RemoveValue(k, ss, toe)
           \/ \E v \in NumberInputs : SetNumber(k, v, ss, toe)
           \/ \E e \in ElementInputs : AddToArray(k, e, ss, toe)
           \/ \E v \in ExpirationValueInputs, n \in SecondsInputs :
                 SetExpiration(k, v, n, ss, toe)
           \/ ClearExpiredValues(k, ss, toe))
              => UNCHANGED <<localStorage, sessionStorage>>]_vars

\* C6 witness: removeValue was called with the number 7 and throwOnError=false
\* while an item is stored under "7".
C6_Witness ==
    /\ call.op = "removeValue" /\ call.path = "invalidKey"
    /\ call.key = Num(7) /\ ~call.throwOnError
    /\ localStorage["7"] # NoItem

\* C7: once setValue(key, v, useSessionStorage) with a string key and a
\* JSON-serializable v has returned, getValue(key, useSessionStorage) returns
\* a value equal to v (and goes on doing so while the item stays as it is,
\* since getValue reads nothing else).
C7_GetValueReturnsWhatWasSet ==
    [][\A k \in {x \in KeyInputs : x.t = "string"},
          v \in {x \in ValueInputs : JSONSerializable(x)},
          ss \in BOOLEAN, toe \in BOOLEAN :
          (SetValue(k, v, ss, toe) /\ call'.result.outcome = "return")
              => \A toe2 \in BOOLEAN :
                    getValueCall(k, ss, toe2)'.result = Returned(v)]_vars

\* C8: setNumber(key, value) stores value only if key does not already exist
\* in the selected storage; under a key that exists, and everywhere else,
\* the storages are left unchanged.
C8_SetNumberOnlyIfAbsent ==
    [][\A k \in KeyInputs, v \in NumberInputs, ss \in BOOLEAN, toe \in BOOLEAN :
          SetNumber(k, v, ss, toe) =>
              <<localStorage, sessionStorage>>' =
                  IF NamesItem(k) /\ Stored(Selected(ss), k.s) = NoItem
                  THEN StoragesWith(Selected(ss), k.s, Json(v))
                  ELSE <<localStorage, sessionStorage>>]_vars

\* C8 witness: setNumber found the key taken and returned without storing.
C8_Witness ==
    /\ call.op = "setNumber" /\ call.path = "exists"
    /\ ItemCount >= 1

----------------------------------------------------------------------------
(* FileLogger (src/src/logger/fileLogger/fileLogger.js) *)

MaxFiles == 1

\* _validateFileName({ fileName }): TRUE when it returns, FALSE when it throws.
validateFileName(name) == JoiStringRequired(name)

FileNameInputs == {Str("app"), Str(""), Undefined}
\* Messages of the FileLogger runs; one of them holds the separator ' - '.
FileMessageInputs == {Str("m1"), Str("WARN - m")}
ClearInputs == {Undefined, Bool(TRUE), Bool(FALSE)}

\* message.split(' - ')
messageParts(m) == IF m = "WARN - m" THEN <<"WARN", "m">> ELSE <<m>>

\* logMessage.split(' - ') on the entry `${level} - ${timestamp} - ${message}`
split(log) == <<log.level, log.timestamp>> \o messageParts(log.message)

\* Mutant of getLogLevel: the level is read from the part after the timestamp.
getLogLevel_AfterTimestamp(logMessage) ==
    LET logLevel == split(logMessage)[3] IN
    IF logLevel \in LOG_LEVELS THEN Str(logLevel) ELSE Undefined

\* getLogLevel(logMessage): LOG_LEVELS[parts[0]]
getLogLevel(logMessage) ==
    LET logLevel == split(logMessage)[1] IN
    IF logLevel \in LOG_LEVELS THEN Str(logLevel) ELSE Undefined

\* `${v}` for a string or undefined.
templateText(v) == IF v.t = "string" THEN v.s ELSE v.t

\* saveAs(new Blob([lines.join('\n')]), name): the file, as its name and lines.
saveAs(lines, name) == files' = Append(files, [name |-> name, content |-> lines])

\* setFileName(fileName)
SetFileName(name) ==
    /\ IF validateFileName(name)
       THEN /\ fileName' = name
            /\ call' = [op |-> "setFileName", path |-> "set",
                        result |-> Returned(Undefined)]
       ELSE /\ fileName' = fileName
            /\ call' = [op |-> "setFileName", path |-> "invalid",
                        result |-> Threw("Error")]
    /\ UNCHANGED <<level, logs, now, files>>
    /\ UNCHANGED storageVars
    /\ UNCHANGED <<auditLogPath, logRotation, maxLogs, saveIntoFile, listeners, received>>

\* Mutant of DownloadLogs: the logs are kept whatever the argument is.
DownloadLogs_NoClear(clearLogsAfterDownload) ==
    LET rec(path) == [op |-> "downloadLogs", clear |-> clearLogsAfterDownload,
                      path |-> path, result |-> Returned(Undefined)]
    IN
    /\ IF Len(logs) = 0
       THEN /\ call' = rec("empty")
            /\ UNCHANGED <<logs, files>>
       ELSE /\ Len(files) < MaxFiles
            /\ saveAs(logs, <<fileName.s>>)
            /\ logs' = logs
            /\ call' = rec("saved")
    /\ UNCHANGED <<level, now, fileName>>
    /\ UNCHANGED storageVars
    /\ UNCHANGED <<auditLogPath, logRotation, maxLogs, saveIntoFile, listeners, received>>

\* downloadLogs(clearLogsAfterDownload = true)
DownloadLogs(clearLogsAfterDownload) ==
    LET clear == DefaultParam(clearLogsAfterDownload, Bool(TRUE))
        rec(path) == [op |-> "downloadLogs", clear |-> clearLogsAfterDownload,
                      path |-> path, result |-> Returned(Undefined)]
    IN
    /\ IF Len(logs) = 0
       THEN /\ call' = rec("empty")
            /\ UNCHANGED <<logs, files>>
       ELSE /\ Len(files) < MaxFiles
            /\ saveAs(logs, <<fileName.s>>)
            /\ logs' = IF Truthy(clear) THEN <<>> ELSE logs
            /\ call' = rec("saved")
    /\ UNCHANGED <<level, now, fileName>>
    /\ UNCHANGED storageVars
    /\ UNCHANGED <<auditLogPath, logRotation, maxLogs, saveIntoFile, listeners, received>>

\* downloadLogsByLevel(level)
DownloadLogsByLevel(lv) ==
    LET filteredLogs == SelectSeq(logs, LAMBDA log : getLogLevel(log) = lv)
        rec(path, res) == [op |-> "downloadLogsByLevel", level |-> lv,
                           path |-> path, result |-> res]
    IN
    /\ IF ~validateLogLevel(lv)
       THEN /\ call' = rec("invalid", Threw("Error"))
            /\ files' = files
       ELSE IF Len(filteredLogs) = 0
       THEN /\ call' = rec("none", Returned(Undefined))
            /\ files' = files
       ELSE /\ Len(files) < MaxFiles
            /\ saveAs(filteredLogs, <<fileName.s, "-", templateText(lv), ".txt">>)
            /\ call' = rec("saved", Returned(Undefined))
    /\ UNCHANGED <<level, logs, now, fileName>>
    /\ UNCHANGED storageVars
    /\ UNCHANGED <<auditLogPath, logRotation, maxLogs, saveIntoFile, listeners, received>>

\* new FileLogger(fileName), for every fileName the constructor accepts.
FileLoggerInit ==
    /\ level = DefaultParam(Undefined, Str("INFO"))
    /\ logs = <<>>
    /\ localStorage = [k \in StorageKeys |-> NoItem]
    /\ sessionStorage = [k \in StorageKeys |-> NoItem]
    /\ timers = [i \in TimerSlots |-> NoTimer]
    /\ now = 0
    /\ call = NoCall
    /\ fileName \in {n \in FileNameInputs : validateFileName(n)}
    /\ files = <<>>
    /\ auditLogPath = Undefined
    /\ logRotation = FALSE
    /\ maxLogs = 0
    /\ saveIntoFile = FALSE
    /\ listeners = <<>>
    /\ received = <<>>

FileLoggerNext ==
    \/ \E lv \in LevelInputs : SetLogLevel(lv)
    \/ \E m \in FileMessageInputs, lv \in LevelInputs : AddLog(m, lv)
    \/ ClearLogs
    \/ \E n \in FileNameInputs : SetFileName(n)
    \/ \E c \in ClearInputs : DownloadLogs(c)
    \/ \E lv \in LevelInputs : DownloadLogsByLevel(lv)

FileLoggerSpec == FileLoggerInit /\ [][FileLoggerNext]_vars

\* C11: downloadLogs(clearLogsAfterDownload) on a non-empty logs array saves
\* one file and leaves the logs array empty when the argument is true or left
\* out, unchanged when it is false; on an empty logs array it saves no file
\* and the logs array stays empty.
C11_DownloadLogsClearsOnRequest ==
    [][\A c \in ClearInputs :
          DownloadLogs(c) =>
              IF logs = <<>>
              THEN files' = files /\ logs' = <<>>
              ELSE /\ Len(files') = Len(files) + 1
                   /\ logs' = IF c = Bool(FALSE) THEN logs ELSE <<>>]_vars

\* C11 witness: downloadLogs() without an argument saved a file of two entries
\* and the logs array is empty afterwards.
C11_Witness ==
    /\ call.op = "downloadLogs" /\ call.path = "saved" /\ call.clear = Undefined
    /\ Len(files) = 1 /\ Len(files[1].content) = 2
    /\ logs = <<>>

\* C12: the file saved by downloadLogsByLevel(level) holds exactly the entries
\* of the logs array that were logged at that level, in their order in the
\* logs array.
C12_DownloadByLevelKeepsThatLevel ==
    [][\A lv \in LevelInputs :
          (DownloadLogsByLevel(lv) /\ files' # files) =>
              /\ lv.t = "string"
              /\ files'[Len(files')].content =
                    SelectSeq(logs, LAMBDA log : log.level = lv.s)]_vars

\* C12 witness: downloadLogsByLevel('INFO') saved the one INFO entry, whose
\* message holds the words "WARN - ", out of a logs array of two entries.
C12_Witness ==
    /\ call.op = "downloadLogsByLevel" /\ call.path = "saved"
    /\ call.level = Str("INFO")
    /\ Len(logs) = 2 /\ Len(files) = 1
    /\ Len(files[1].content) = 1 /\ files[1].content[1].message = "WARN - m"

----------------------------------------------------------------------------
(* AuditLogger (src/src/logger/customConsoleLogger/customConsoleLogger.js) *)

AuditLogPathInputs == {Str("audit.log")}
\* The maxLogs a logger is built with; the constructor checks nothing.
MaxLogsInputs == {1, 2}
ActionInputs == {Str("login")}
MetadataInputs == {Null}

\* The text `${timestamp} - ${action} - ${JSON.stringify(metadata)}`, kept as
\* its three parts.
auditLog(timestamp, action, metadata) ==
    [timestamp |-> timestamp, action |-> action.s,
     metadata |-> JSONstringify(metadata)]

\* rotateLogsIfNeeded(): this.logs.splice(0, this.logs.length - this.maxLogs)
\* when this.logs.length > this.maxLogs; what this.logs is afterwards.
rotateLogsIfNeeded(entries) ==
    IF Len(entries) > maxLogs
    THEN SubSeq(entries, Len(entries) - maxLogs + 1, Len(entries))
    ELSE entries

\* The public method rotateLogsIfNeeded(), called on its own.
RotateLogsIfNeeded ==
    /\ logs' = rotateLogsIfNeeded(logs)
    /\ call' = [op |-> "rotateLogsIfNeeded",
                path |-> IF Len(logs) > maxLogs THEN "rotated" ELSE "kept",
                result |-> Returned(Undefined)]
    /\ UNCHANGED <<level, now>>
    /\ UNCHANGED storageVars
    /\ UNCHANGED derivedVars

\* logToFileSystem(log), reached from the method named op.
logToFileSystem(op, log) ==
    /\ Len(files) < MaxFiles
    /\ saveAs(<<log>>, auditLogPath)
    /\ logs' = IF logRotation THEN rotateLogsIfNeeded(logs) ELSE logs
    /\ call' = [op |-> op, path |-> "file", result |-> Returned(Undefined)]

\* logToFileSystem(log), called on its own.
LogToFileSystem(log) ==
    /\ logToFileSystem("logToFileSystem", log)
    /\ UNCHANGED <<level, now>>
    /\ UNCHANGED storageVars
    /\ UNCHANGED <<fileName, auditLogPath, logRotation, maxLogs, saveIntoFile,
                   listeners, received>>

\* logAuditAction(action, metadata); logSecurityIncident, logUserActivity,
\* logSystemError, logDataAccessEvent and logAuthorizationEvent have its shape.
LogAuditAction(action, metadata) ==
    /\ IF saveIntoFile
       THEN logToFileSystem("logAuditAction", auditLog(now, action, metadata))
       ELSE \* ConsoleLogger.log(log)
            /\ call' = [op |-> "logAuditAction", path |-> "console",
                        result |-> Returned(Undefined)]
            /\ UNCHANGED <<logs, files>>
    /\ UNCHANGED <<level, now>>
    /\ UNCHANGED storageVars
    /\ UNCHANGED <<fileName, auditLogPath, logRotation, maxLogs, saveIntoFile,
                   listeners, received>>

\* new AuditLogger(auditLogPath, logRotation, maxLogs, saveIntoFile)
AuditLoggerInit ==
    /\ level = DefaultParam(Undefined, Str("INFO"))
    /\ logs = <<>>
    /\ localStorage = [k \in StorageKeys |-> NoItem]
    /\ sessionStorage = [k \in StorageKeys |-> NoItem]
    /\ timers = [i \in TimerSlots |-> NoTimer]
    /\ now = 0
    /\ call = NoCall
    /\ fileName = Undefined
    /\ files = <<>>
    /\ auditLogPath \in AuditLogPathInputs
    /\ logRotation \in BOOLEAN
    /\ maxLogs \in MaxLogsInputs
    /\ saveIntoFile \in BOOLEAN
    /\ listeners = <<>>
    /\ received = <<>>

AuditLoggerNext ==
    \/ \E lv \in LevelInputs : SetLogLevel(lv)
    \/ \E m \in MessageInputs, lv \in LevelInputs : AddLog(m, lv)
    \/ ClearLogs
    \/ \E a \in ActionInputs, d \in MetadataInputs : LogAuditAction(a, d)
    \/ \E a \in ActionInputs, d \in MetadataInputs :
            LogToFileSystem(auditLog(now, a, d))
    \/ RotateLogsIfNeeded
    \/ Tick

AuditLoggerSpec == AuditLoggerInit /\ [][AuditLoggerNext]_vars

\* C13: with logRotation enabled, once a logging call (the inherited addLog,
\* logAuditAction or logToFileSystem) has run, the logs array holds no more
\* than maxLogs entries.
C13_RotationKeepsAtMostMaxLogs ==
    (logRotation /\ call.op \in {"addLog", "logAuditAction", "logToFileSystem"})
        => Len(logs) <= maxLogs

----------------------------------------------------------------------------
(* EventLogger (src/unnamed/part_001) and the EventEmitter it holds *)

MaxListeners == 2
MaxReceived == 2

\* The listener functions of the runs: each records what it is called with.
ListenerInputs == {"f", "g"}
\* The events listeners are registered for, and those emit is called with.
EventInputs == {Str("log"), Str("")}
EmitInputs == {Str("log"), Str("done"), Str("")}
EventMessageInputs == {Str("m1"), Undefined}
\* The levels of the EventLogger runs: setLogLevel's and log's arguments.
EventSetLevelInputs == {Str("WARN"), Undefined}
EventLevelInputs == {Str("INFO"), Str("WARN"), Str("ERROR")}
PayloadInputs == {Null}

\* _validateEmit / _validateEmittion: the event must be a non-empty string.
validateEmit(event) == JoiStringRequired(event)
validateEmittion(event) == JoiStringRequired(event)

\* What addLog(message, level) does inside another method: the path it takes,
\* how it ends, and this.logs afterwards.
addLogOutcome(message, lvArg) ==
    LET lv == DefaultParam(lvArg, Str("INFO")) IN
    IF ~validateLogLevel(lv) \/ ~validateLogMessage(message)
    THEN [path |-> "invalid", result |-> Threw("Error"), logs |-> logs]
    ELSE IF ~IsString(level)
    THEN [path |-> "nolevel", result |-> Threw("TypeError"), logs |-> logs]
    ELSE IF indexOf(LOG_LEVELS_KEYS, lv.s) < indexOf(LOG_LEVELS_KEYS, level.s)
    THEN [path |-> "filtered", result |-> Returned(Undefined), logs |-> logs]
    ELSE [path |-> "pushed", result |-> Returned(Undefined),
          logs |-> Append(logs, finalMessage(lv, now, message))]

\* The listeners emitter.emit(event, ...) calls, in the order they were added.
listenersOf(event) == SelectSeq(listeners, LAMBDA l : l.event = event)

\* emitter.emit(event, payload): every listener of the event is called once
\* with the payload, in order, and the one-time listeners are dropped.
emitterEmit(event, payload) ==
    /\ Len(received) + Len(listenersOf(event)) <= MaxReceived
    /\ received' = received \o
           [i \in 1..Len(listenersOf(event)) |->
               [listener |-> listenersOf(event)[i].listener, event |-> event,
                payload |-> payload]]
    /\ listeners' = SelectSeq(listeners, LAMBDA l : ~(l.event = event /\ l.once))

\* log(message, level): super.addLog, then _validateLogLevel, then the emit.
Log(message, lvArg) ==
    LET added == addLogOutcome(message, lvArg) IN
    /\ Len(logs) < MaxLogs
    /\ logs' = added.logs
    /\ IF added.result.outcome = "throw"
       THEN /\ call' = [op |-> "log", path |-> added.path, result |-> added.result]
            /\ UNCHANGED <<listeners, received>>
       ELSE IF ~validateLogLevel(lvArg)
       THEN /\ call' = [op |-> "log", path |-> "invalid", result |-> Threw("Error")]
            /\ UNCHANGED <<listeners, received>>
       ELSE /\ call' = [op |-> "log", path |-> added.path, result |-> added.result]
            /\ emitterEmit("log", [level |-> lvArg, message |-> message])
    /\ UNCHANGED <<level, now>>
    /\ UNCHANGED storageVars
    /\ UNCHANGED <<fileName, files, auditLogPath, logRotation, maxLogs, saveIntoFile>>

\* emit(event, payload)
Emit(event, payload) ==
    /\ IF validateEmit(event)
       THEN /\ emitterEmit(event.s, payload)
            /\ call' = [op |-> "emit", path |-> "emitted",
                        result |-> Returned(Undefined)]
       ELSE /\ UNCHANGED <<listeners, received>>
            /\ call' = [op |-> "emit", path |-> "invalid", result |-> Threw("Error")]
    /\ UNCHANGED <<level, logs, now>>
    /\ UNCHANGED storageVars
    /\ UNCHANGED <<fileName, files, auditLogPath, logRotation, maxLogs, saveIntoFile>>

\* on(event, listener) and once(event, listener)
On(event, listener, once) ==
    /\ IF validateEmittion(event)
       THEN /\ Len(listeners) < MaxListeners
            /\ listeners' = Append(listeners,
                   [event |-> event.s, listener |-> listener, once |-> once])
            /\ call' = [op |-> IF once THEN "once" ELSE "on", path |-> "added",
                        result |-> Returned(Undefined)]
       ELSE /\ listeners' = listeners
            /\ call' = [op |-> IF once THEN "once" ELSE "on", path |-> "invalid",
                        result |-> Threw("Error")]
    /\ UNCHANGED <<level, logs, now, received>>
    /\ UNCHANGED storageVars
    /\ UNCHANGED <<fileName, files, auditLogPath, logRotation, maxLogs, saveIntoFile>>

\* off(event, listener): the listener's most recent registration is removed.
Off(event, listener) ==
    LET hits == {i \in DOMAIN listeners :
                    listeners[i].event = event.s /\ listeners[i].listener = listener}
        last == CHOOSE i \in hits : \A j \in hits : j <= i
    IN
    /\ IF ~validateEmittion(event)
       THEN /\ listeners' = listeners
            /\ call' = [op |-> "off", path |-> "invalid", result |-> Threw("Error")]
       ELSE /\ listeners' = IF hits = {} THEN listeners
                            ELSE SubSeq(listeners, 1, last - 1)
                                 \o SubSeq(listeners, last + 1, Len(listeners))
            /\ call' = [op |-> "off", path |-> "removed",
                        result |-> Returned(Undefined)]
    /\ UNCHANGED <<level, logs, now, received>>
    /\ UNCHANGED storageVars
    /\ UNCHANGED <<fileName, files, auditLogPath, logRotation, maxLogs, saveIntoFile>>

\* removeAllListeners()
RemoveAllListeners ==
    /\ listeners' = <<>>
    /\ call' = [op |-> "removeAllListeners", path |-> "removed",
                result |-> Returned(Undefined)]
    /\ UNCHANGED <<level, logs, now, received>>
    /\ UNCHANGED storageVars
    /\ UNCHANGED <<fileName, files, auditLogPath, logRotation, maxLogs, saveIntoFile>>

\* new EventLogger(): the default level and an emitter without listeners.
EventLoggerInit ==
    /\ level = DefaultParam(Undefined, Str("INFO"))
    /\ logs = <<>>
    /\ localStorage = [k \in StorageKeys |-> NoItem]
    /\ sessionStorage = [k \in StorageKeys |-> NoItem]
    /\ timers = [i \in TimerSlots |-> NoTimer]
    /\ now = 0
    /\ call = NoCall
    /\ PlainLogger

EventLoggerNext ==
    \/ \E lv \in EventSetLevelInputs : SetLogLevel(lv)
    \/ ClearLogs
    \/ \E m \in EventMessageInputs, lv \in EventLevelInputs : Log(m, lv)
    \/ \E ev \in EmitInputs, p \in PayloadInputs : Emit(ev, p)
    \/ \E ev \in EventInputs, l \in ListenerInputs, once \in BOOLEAN : On(ev, l, once)
    \/ \E ev \in EventInputs, l \in ListenerInputs : Off(ev, l)
    \/ RemoveAllListeners

EventLoggerSpec == EventLoggerInit /\ [][EventLoggerNext]_vars

\* What the 'log' listeners receive, in order, when one 'log' event carrying
\* level lv and message m is emitted.
OneLogEvent(m, lv) ==
    [i \in 1..Len(listenersOf("log")) |->
        [listener |-> listenersOf("log")[i].listener, event |-> "log",
         payload |-> [level |-> lv, message |-> m]]]

\* C14: every log(message, level) call with a valid message and one of the
\* levels DEBUG, INFO, WARN hands the log to addLog (which stores it unless the
\* level filter drops it) and then emits exactly one 'log' event carrying that
\* level and message: each listener registered for 'log' is called once with it.
C14_LogAddsThenEmitsOnce ==
    [][\A m \in EventMessageInputs, lv \in EventLevelInputs :
          (Log(m, lv) /\ validateLogMessage(m) /\ IsLevel(lv)) =>
              /\ logs' = LogsAfterAddLog(m, lv, level)
              /\ received' = received \o OneLogEvent(m, lv)]_vars

\* C17: a 'log' listener is called by log(message, level) only when that call
\* has put the entry for the message in the logs array: no 'log' event is
\* emitted for a message the level filter kept out.
C17_ListenerSeesStoredEntry ==
    [][\A m \in EventMessageInputs, lv \in EventLevelInputs :
          (Log(m, lv) /\ received' # received) =>
              logs' = Append(logs, finalMessage(DefaultParam(lv, Str("INFO")), now, m))]_vars

----------------------------------------------------------------------------
(* StorageManager.getExpiration, and entries that outlive their timer *)

\* The object { value, expirationTime, remainingTime, countdown } that
\* getExpiration returns; countdown is remainingTime written as hh:mm:ss.
ExpirationInfo(value, expirationTime, remainingTime) ==
    [t |-> "expiration", value |-> value, expirationTime |-> expirationTime,
     remainingTime |-> remainingTime]

\* Math.max(0, expirationTime - now): null counts as 0, undefined gives NaN.
remainingTimeOf(expirationTime) ==
    CASE expirationTime.t = "number" ->
            Num(IF expirationTime.n - now > 0 THEN expirationTime.n - now ELSE 0)
      [] expirationTime.t = "null" -> Num(0)
      [] OTHER -> NaN

\* getExpiration(key, useSessionStorage = false, throwOnError = true)
GetExpiration(key, ss, toe) ==
    LET st == storageName(ss)
        parsedValue == JSONparse(getItem(st, key.s))
        expirationTime == expirationTimeOf(parsedValue.value)
        value == IF parsedValue.value.t = "object" THEN parsedValue.value.value
                 ELSE Undefined
    IN
    /\ Idle
    /\ call' =
         IF ~isString(key)
         THEN Rec("getExpiration", key, toe, "invalidKey",
                  throwOrReturnOnError(toe, Null))
         ELSE IF parsedValue.outcome = "throw"
         THEN Rec("getExpiration", key, toe, "notJson",
                  throwOrReturnOnError(toe, Null))
         ELSE IF ~Truthy(parsedValue.value) \/ ~TypeofObject(parsedValue.value)
         THEN Rec("getExpiration", key, toe, "notObject",
                  throwOrReturnOnError(toe, Null))
         ELSE IF remainingTimeOf(expirationTime) = NaN
         THEN \* new Date(NaN).toISOString() throws a RangeError, which is caught
              Rec("getExpiration", key, toe, "invalidDate",
                  throwOrReturnOnError(toe, Null))
         ELSE Done("getExpiration", "found",
                   Returned(ExpirationInfo(value, expirationTime,
                                           remainingTimeOf(expirationTime))))
    /\ UNCHANGED <<localStorage, sessionStorage, timers, now>>
    /\ UNCHANGED loggerVars
    /\ UNCHANGED derivedVars

\* The page is reloaded: the pending setTimeout callbacks are gone with the
\* old page, localStorage and sessionStorage keep their items.
Reload ==
    /\ Idle
    /\ timers' = [i \in TimerSlots |-> NoTimer]
    /\ level' = DefaultParam(Undefined, Str("INFO"))
    /\ logs' = <<>>
    /\ UNCHANGED <<localStorage, sessionStorage, now, call>>
    /\ UNCHANGED derivedVars

ExpirationNext ==
    \/ \E k \in ValidKeyInputs, v \in ValueInputs, ss \in BOOLEAN :
            SetValue(k, v, ss, TRUE)
    \/ \E k \in ValidKeyInputs, ss \in BOOLEAN : RemoveValue(k, ss, TRUE)
    \/ \E k \in ValidKeyInputs, v \in ExpirationValueInputs, n \in SecondsInputs,
          ss \in BOOLEAN : SetExpiration(k, v, n, ss, TRUE)
    \/ \E k \in KeyInputs, ss \in BOOLEAN, toe \in BOOLEAN : GetExpiration(k, ss, toe)
    \/ \E i \in TimerSlots : TimerFire(i)
    \/ Idle /\ Tick
    \/ Reload
    \/ Return

ExpirationSpec == Init /\ [][ExpirationNext]_vars

\* C15: the timer of a setExpiration call removes only a value whose own
\* lifetime has ended: what it finds under the key is an entry whose
\* expirationTime has been reached, never a value written later.
C15_TimerRemovesOnlyItsOwnValue ==
    [][\A i \in TimerSlots :
          TimerFire(i) =>
              \/ Stored(timers[i].st, timers[i].key) = NoItem
              \/ ReachedExpiration(Stored(timers[i].st, timers[i].key))]_vars

\* C16: getExpiration(key) does not return the stored value of an entry whose
\* expirationTime has already passed.
C16_GetExpirationHidesExpired ==
    [][\A k \in KeyInputs, ss \in BOOLEAN, toe \in BOOLEAN :
          (GetExpiration(k, ss, toe) /\ NamesItem(k)
              /\ PastExpiration(Stored(Selected(ss), k.s)))
          => call'.path # "found"]_vars

====
